---- MODULE Spec2Model ----
(***************************************************************************)
(* Ant routing search (ant_easy.py): the driver main, the two-sided search *)
(* get_route, the watcher check_match and the route builder build_route,   *)
(* over the per-node search process of ant_testing.Node.                   *)
(*                                                                         *)
(* ant_testing (Node, Payment, Match) is imported by ant_easy.py but is    *)
(* not among the source files: the node's search process and its ledger    *)
(* are modelled from the specification (sections 3, 4.1, 4.2, 5), and the  *)
(* Match becomes visible the way sections 4.3, 4.4 and 6 state it, in the  *)
(* fields ant_easy.py reads on a Node (payment.match.match_id / from_id,   *)
(* match_data[matchId]). Every search is launched by get_route, with the   *)
(* counter get_route draws.                                                *)
(***************************************************************************)
EXTENDS Integers, Sequences, FiniteSets, TLC

\* ------------------------------------------------------------------ bounds

\* Seeds are 0..MaxSeed (generate_seed draws 128 random bits).
MaxSeed == 1

\* Frames of build_route the interpreter allows before RecursionError.
RecursionLimit == 6

\* Calls of build_route made by a client of the route builder.
MaxCalls == 2

\* Nodes of the networks handed to build_route on its own.
BuildNodes == 3

\* Nodes of the random graph generate_random_ln_network draws (max_nodes,
\* 42 by default).
MaxNodes == 10

\* --------------------------------------------------------- program constants

\* randint(64,128): the range of the initial pheromone counter.
CounterLo == 64
CounterHi == 128

\* main: alice = 2, bob = 8, amount = 1
MainAlice == 2
MainBob == 8
Amount == 1

\* Node.maxfees of every node (the per-hop cost model is external).
MaxFees == 1

\* ------------------------------------------------------------- python values

\* None, and an object reference.
None == <<>>
Some(x) == <<x>>

\* len(network)
len(net) == Cardinality(DOMAIN net)

Seeds == 0..MaxSeed

Roles == {"alice", "bob"}

Opposite(r) == IF r = "alice" THEN "bob" ELSE "alice"

\* random.randint(a, b): any integer of a..b.
randint(a, b) == a..b

\* generate_seed(): any 128-bit string; here any seed of Seeds.
generate_seed == Seeds

\* ---------------------------------------------------------------- topologies

\* generate_ln_network_from_networkx: Node(node, set(network.neighbors(node)))
\* for each node of the graph; a network is the neighbour set of each node.
\* The graph is its nodes 0..n-1 and its edges {i, j}; a self-loop is the
\* edge {i}, and makes the node a neighbour of itself.
generate_ln_network_from_networkx(n, edges) ==
    [i \in 0..(n - 1) |-> {j \in 0..(n - 1) : {i, j} \in edges}]

\* The nodes within k hops of node a.
RECURSIVE Ball(_, _, _)
Ball(net, a, k) ==
    IF k < 0 \/ a \notin DOMAIN net THEN {}
    ELSE IF k = 0 THEN {a}
    ELSE LET B == Ball(net, a, k - 1)
         IN  B \cup UNION {net[x] : x \in B}

\* nx.connected_components(tmp) sorted by len, reverse=True, at index 0: the
\* largest component, and of several largest ones the first found, which is
\* that of the least node.
largest_component(tmp) ==
    LET size(v) == Cardinality(Ball(tmp, v, len(tmp)))
        first == CHOOSE v \in DOMAIN tmp :
                    /\ \A u \in DOMAIN tmp : size(u) <= size(v)
                    /\ \A u \in DOMAIN tmp : size(u) = size(v) => v <= u
    IN  Ball(tmp, first, len(tmp))

\* generate_random_ln_network, given the graph tmp that
\* nx.fast_gnp_random_graph(max_nodes, edge_prob) has drawn: the subgraph of
\* its largest component, its nodes relabelled 0..k-1 in the order of the
\* graph's nodes, handed to generate_ln_network_from_networkx. (The drawing
\* and plt.pause(show_time) happen before any task exists and change nothing
\* else.)
generate_random_ln_network(max_nodes, edges) ==
    LET tmp == [i \in 0..(max_nodes - 1) |->
                    {j \in 0..(max_nodes - 1) : {i, j} \in edges}]
        sub == largest_component(tmp)
        label(v) == Cardinality({u \in sub : u < v})
    IN  generate_ln_network_from_networkx(Cardinality(sub),
            {{label(q[1]), label(q[2])} :
                q \in {e \in sub \X sub : {e[1], e[2]} \in edges}})

\* Graphs the random draw may give, on MaxNodes nodes. In the first, node 0
\* is isolated and the other nodes form a path on which main's endpoints
\* (after relabelling) are neighbours at one end; in the second the largest
\* component is the path 0-1-2-3-4, too small to hold main's bob.
RandomGraphs ==
    { {{3, 9}, {9, 1}, {1, 2}, {2, 4}, {4, 5}, {5, 6}, {6, 7}, {7, 8}}
          \cup {{i, i + 1} : i \in 9..(MaxNodes - 2)},
      {{0, 1}, {1, 2}, {2, 3}, {3, 4}, {5, 6}, {7, 8}} }

\* network = generate_random_ln_network(show_time=10)
MainNetworks == {generate_random_ln_network(MaxNodes, edges) : edges \in RandomGraphs}

Line(n) == generate_ln_network_from_networkx(n, {{i, i + 1} : i \in 0..(n - 2)})

Cycle4 == generate_ln_network_from_networkx(4, {{0, 1}, {1, 2}, {2, 3}, {3, 0}})

\* The triangle 0-1-2 with node 3 hanging from node 1.
Kite == generate_ln_network_from_networkx(4, {{0, 1}, {0, 2}, {1, 2}, {1, 3}})

\* A line two nodes longer than the smallest counter get_route draws: a
\* signal launched at one end with that counter is spent before the other.
LongLine == Line(CounterLo + 2)

\* Two components: 0-1 and 2-3.
Split == generate_ln_network_from_networkx(4, {{0, 1}, {2, 3}})

\* The networks a caller hands to get_route and check_match: any list of
\* Nodes built by generate_ln_network_from_networkx, connected or not. Each
\* connected one is also a network generate_random_ln_network may return;
\* Split is not.
CallTopologies == {Line(3), Split}


\* The (alice, bob) arguments a caller passes with a network: every pair,
\* valid or not, on the small networks, the two far ends on the larger ones,
\* and on each the pair main passes.
EndpointInputs(net) ==
    (IF len(net) <= 4
     THEN (-1..len(net)) \X (-1..len(net))
     ELSE {<<0, len(net) - 1>>, <<len(net) - 1, 0>>})
    \cup {<<MainAlice, MainBob>>}

\* --------------------------------------------------------------------- state

VARIABLES
    nbrs,        \* network: each Node's neighbour set (fixed after construction)
    alice, bob,  \* the endpoint arguments main hands to get_route and check_match
    stop,        \* check_match's stop argument
    running,     \* Node.start() / Node.stop(): the node's running flag
    payment,     \* Node.payment: None or the Payment installed by set_payment
    ledger,      \* per node and role: None (unvisited) or the arrived-from node
    inbox,       \* per node: the queue of signals delivered and not yet handled
    match_data,  \* Node.match_data: per match id, None or the next node of the route
    matched,     \* per node: it has emitted a Match located at itself
    task,        \* per node: the state of its ant_route task
    pcMain,      \* main
    pcGet,       \* the get_route task
    pcWatch,     \* the check_match task
    res_default, \* the list object that is build_route's default for res
    calls        \* the calls of build_route so far, each with what it returned

vars ==
    <<nbrs, alice, bob, stop, running, payment, ledger, inbox, match_data,
      matched, task, pcMain, pcGet, pcWatch, res_default, calls>>

Nodes == DOMAIN nbrs

\* Node(id, neighbors): no payment, an empty ledger, not running.
NodeInit(net) ==
    /\ nbrs = net
    /\ running = [n \in DOMAIN net |-> FALSE]
    /\ payment = [n \in DOMAIN net |-> None]
    /\ ledger = [n \in DOMAIN net |-> [r \in Roles |-> None]]
    /\ inbox = [n \in DOMAIN net |-> <<>>]
    /\ matched = [n \in DOMAIN net |-> FALSE]
    /\ task = [n \in DOMAIN net |-> "none"]

\* The state before start_all_nodes, for a network and the arguments alice,
\* bob (of get_route; alice is also check_match's fromNode) and stop (of
\* check_match).
InitState(net, a, b, s) ==
    /\ NodeInit(net)
    /\ match_data = [n \in DOMAIN net |-> [m \in Seeds |-> None]]
    /\ alice = a
    /\ bob = b
    /\ stop = s
    /\ pcMain = "init"
    /\ pcGet = "none"
    /\ pcWatch = "none"
    /\ res_default = <<>>
    /\ calls = <<>>

\* A caller that runs get_route and check_match the way main does, on each
\* network of `topologies`, with each pair of endpoints and either value of
\* stop.
InitOn(topologies) ==
    \E net \in topologies : \E pair \in EndpointInputs(net) : \E s \in BOOLEAN :
        InitState(net, pair[1], pair[2], s)

\* ------------------------------------------------------------------ get_route

\* not 0 <= alice < len(network) or not 0 <= bob < len(network)
NotConnected(a, b, n) == ~(0 <= a /\ a < n) \/ ~(0 <= b /\ b < n)

\* get_route without its second check.
SameNodeUnchecked(a, b) == FALSE

\* bob == alice
SameNode(a, b) == b = a

\* Payment(seed, amount, is_bob, is_alice, node_bob, node_alice, fees, counter);
\* a new Payment has no match.
Payment(seed, amt, isBob, isAlice, nodeBob, nodeAlice, fees, counter) ==
    [seed |-> seed, amount |-> amt, is_bob |-> isBob, is_alice |-> isAlice,
     node_bob |-> nodeBob, node_alice |-> nodeAlice, fees |-> fees,
     counter |-> counter, match |-> None]

RoleOf(p) == IF p.is_alice THEN "alice" ELSE "bob"

\* The signal a node sends itself when a Payment is installed on it.
SelfSignal(n, p) ==
    [kind |-> "phero", seed |-> p.seed, role |-> RoleOf(p), sender |-> n,
     counter |-> p.counter, fees |-> p.fees]

\* get_route with payment_bob given payment_alice's role flags.
LaunchSearchSameFlags(seed, counter) ==
    LET fees == MaxFees + MaxFees
        payment_alice == Payment(seed, Amount, FALSE, TRUE, bob, alice, fees, counter)
        payment_bob == Payment(seed, Amount, FALSE, TRUE, bob, alice, fees, counter)
    IN  /\ payment' = [payment EXCEPT ![bob] = Some(payment_bob),
                                      ![alice] = Some(payment_alice)]
        /\ inbox' = [inbox EXCEPT ![bob] = Append(@, SelfSignal(bob, payment_bob)),
                                  ![alice] = Append(@, SelfSignal(alice, payment_alice))]
        /\ task' = [n \in Nodes |-> "run"]
        /\ pcGet' = "gather"

\* Lines 85-116 of get_route for a valid pair, given the seed and the counter
\* drawn: the two Payments, set_payment on bob's node then on alice's, and one
\* ant_route task per node.
LaunchSearch(seed, counter) ==
    LET fees == MaxFees + MaxFees
        payment_alice == Payment(seed, Amount, FALSE, TRUE, bob, alice, fees, counter)
        payment_bob == Payment(seed, Amount, TRUE, FALSE, bob, alice, fees, counter)
    IN  /\ payment' = [payment EXCEPT ![bob] = Some(payment_bob),
                                      ![alice] = Some(payment_alice)]
        /\ inbox' = [inbox EXCEPT ![bob] = Append(@, SelfSignal(bob, payment_bob)),
                                  ![alice] = Append(@, SelfSignal(alice, payment_alice))]
        /\ task' = [n \in Nodes |-> "run"]
        /\ pcGet' = "gather"

\* get_route up to its await: the two checks, seed = generate_seed(),
\* counter = randint(64,128), then the launch.
GetRoute ==
    /\ pcGet = "ready"
    /\ IF NotConnected(alice, bob, len(nbrs)) \/ SameNode(alice, bob)
       THEN /\ pcGet' = "raised"
            /\ UNCHANGED <<payment, inbox, task>>
       ELSE \E seed \in generate_seed, counter \in randint(CounterLo, CounterHi) :
                LaunchSearch(seed, counter)
    /\ UNCHANGED <<nbrs, alice, bob, stop, running, ledger, match_data, matched,
                   pcMain, pcWatch, res_default, calls>>

\* await asyncio.gather(*tasks): returns when every node task has ended, and
\* raises as soon as one of them has raised.
GetRouteGather ==
    /\ pcGet = "gather"
    /\ IF \E n \in Nodes : task[n] = "raised"
       THEN pcGet' = "raised"
       ELSE /\ \A n \in Nodes : task[n] = "done"
            /\ pcGet' = "done"
    /\ UNCHANGED <<nbrs, alice, bob, stop, running, payment, ledger, inbox,
                   match_data, matched, task, pcMain, pcWatch, res_default, calls>>

\* ---------------------------------------------------------- Node.ant_route

\* The role of the requesting endpoint, whose Payment main watches and
\* reads (network[alice].payment): its backward pointers lead there.
RequestingRole == "alice"

\* Forward without the decrement of the counter.
ForwardUndecremented(box, n, m) ==
    LET c == m.counter
    IN  IF c > 0 /\ m.fees > 0
        THEN [i \in DOMAIN box |->
                IF i \in nbrs[n] \ {m.sender}
                THEN Append(box[i], [m EXCEPT !.sender = n, !.counter = c])
                ELSE box[i]]
        ELSE box

\* Forwarding a signal handled by n: the counter is decremented, and while it
\* is positive and the fee budget is not exhausted the signal goes to every
\* neighbour except the sender.
Forward(box, n, m) ==
    LET c == m.counter - 1
    IN  IF c > 0 /\ m.fees > 0
        THEN [i \in DOMAIN box |->
                IF i \in nbrs[n] \ {m.sender}
                THEN Append(box[i], [m EXCEPT !.sender = n, !.counter = c])
                ELSE box[i]]
        ELSE box

\* The Match as the requesting endpoint's Payment shows it: main reads
\* payment.match.match_id and payment.match.from_id, the node where the match
\* occurred.
RecordMatch(p, mid, from) ==
    [p EXCEPT !.match = Some([match_id |-> mid, from_id |-> from])]

\* The backward-pointer records build_route reads as match_data[matchId]:
\* for the match id of the Match the requesting endpoint's Payment shows,
\* each node's arrived-from pointer of the requesting role; no record for a
\* match id without a Match.
BackwardPointers(led, pay) ==
    [k \in Nodes |-> [s \in Seeds |->
        IF pay[alice][1].match # None /\ pay[alice][1].match[1].match_id = s
        THEN led[k][RequestingRole]
        ELSE None]]

\* Node n, whose ledger has both roles visited for the seed, emits a Match
\* located at itself. The search is MATCHED from that instant: the requesting
\* endpoint's Payment shows the Match, and only the first emission counts.
EmitMatch(n, seed, led, box) ==
    LET pay == [payment EXCEPT ![alice] =
                    IF @[1].match = None
                    THEN Some(RecordMatch(@[1], seed, n))
                    ELSE @]
    IN  /\ matched' = [matched EXCEPT ![n] = TRUE]
        /\ payment' = pay
        /\ match_data' = BackwardPointers(led, pay)
        /\ inbox' = box

\* HandlePheromone without the drop of a duplicate: every arrival marks the
\* slot again and is forwarded.
HandlePheromoneAgain(n, m, box) ==
    LET led == [ledger EXCEPT ![n][m.role] = Some(m.sender)]
    IN  /\ ledger' = led
        /\ IF ledger[n][Opposite(m.role)] # None /\ ~matched[n]
           THEN EmitMatch(n, m.seed, led, box)
           ELSE /\ inbox' = Forward(box, n, m)
                /\ match_data' = BackwardPointers(led, payment)
                /\ UNCHANGED <<matched, payment>>

\* Node n handles the pheromone signal m: a duplicate for a visited
\* (seed, role) is dropped; otherwise the slot is marked with the sender, and
\* either both roles are now visited and the node emits a Match, or the
\* signal is forwarded.
HandlePheromone(n, m, box) ==
    IF ledger[n][m.role] # None
    THEN /\ inbox' = box
         /\ UNCHANGED <<ledger, matched, match_data, payment>>
    ELSE LET led == [ledger EXCEPT ![n][m.role] = Some(m.sender)]
         IN  /\ ledger' = led
             /\ IF ledger[n][Opposite(m.role)] # None
                THEN EmitMatch(n, m.seed, led, box)
                ELSE /\ inbox' = Forward(box, n, m)
                     /\ match_data' = BackwardPointers(led, payment)
                     /\ UNCHANGED <<matched, payment>>

\* NodeHandle without the test of the running flag.
NodeHandleWhileStopped(n) ==
    /\ task[n] = "run"
    /\ inbox[n] # <<>>
    /\ HandlePheromone(n, Head(inbox[n]), [inbox EXCEPT ![n] = Tail(@)])
    /\ UNCHANGED <<nbrs, alice, bob, stop, running, task, pcMain, pcGet, pcWatch,
                   res_default, calls>>

\* One turn of node n's search process: it takes the next signal of its
\* queue and handles it.
NodeHandle(n) ==
    /\ task[n] = "run"
    /\ running[n]
    /\ inbox[n] # <<>>
    /\ HandlePheromone(n, Head(inbox[n]), [inbox EXCEPT ![n] = Tail(@)])
    /\ UNCHANGED <<nbrs, alice, bob, stop, running, task, pcMain, pcGet, pcWatch,
                   res_default, calls>>

\* A node told to stop ends its search process.
NodeExit(n) ==
    /\ task[n] = "run"
    /\ ~running[n]
    /\ task' = [task EXCEPT ![n] = "done"]
    /\ UNCHANGED <<nbrs, alice, bob, stop, running, payment, ledger, inbox,
                   match_data, matched, pcMain, pcGet, pcWatch, res_default, calls>>

\* An error raised inside node n's search process ends its task; one node of
\* a run is faulty.
NodeFault(n) ==
    /\ task[n] = "run"
    /\ \A k \in Nodes : task[k] # "raised"
    /\ running[n]
    /\ task' = [task EXCEPT ![n] = "raised"]
    /\ UNCHANGED <<nbrs, alice, bob, stop, running, payment, ledger, inbox,
                   match_data, matched, pcMain, pcGet, pcWatch, res_default, calls>>

\* ---------------------------------------------------------------- check_match

\* for node in network: node.stop()
stop_all_nodes == [n \in Nodes |-> FALSE]

\* for node in network: node.start()
start_all_nodes == [n \in Nodes |-> TRUE]

\* network[i] of a Python list: a negative index counts from the end.
PyIndexOk(i, n) == 0 - n <= i /\ i < n
PyIndex(i, n) == IF i < 0 THEN i + n ELSE i

\* check_match stopping the nodes whatever its stop argument.
CheckMatchAlwaysStops(fromNode) ==
    /\ pcWatch \in {"ready", "poll"}
    /\ pcGet # "ready"
    /\ IF ~PyIndexOk(fromNode, len(nbrs))
       THEN pcWatch' = "raised" /\ UNCHANGED running
       ELSE LET p == payment[PyIndex(fromNode, len(nbrs))]
            IN  IF p = None
                THEN pcWatch' = "raised" /\ UNCHANGED running
                ELSE IF p[1].match = None
                THEN pcWatch' = "sleep" /\ UNCHANGED running
                ELSE /\ pcWatch' = "done"
                     /\ running' = stop_all_nodes
    /\ UNCHANGED <<nbrs, alice, bob, stop, payment, ledger, inbox, match_data,
                   matched, task, pcMain, pcGet, res_default, calls>>

\* One pass of the loop of check_match(network, fromNode): without a match it
\* sleeps; with one it sets found and, with stop, stops all the nodes. The
\* task starts after get_route has run to its await (tasks start in the order
\* they were created). Reading .match of a node without Payment, or a node
\* out of range, raises.
CheckMatch(fromNode) ==
    /\ pcWatch \in {"ready", "poll"}
    /\ pcGet # "ready"
    /\ IF ~PyIndexOk(fromNode, len(nbrs))
       THEN pcWatch' = "raised" /\ UNCHANGED running
       ELSE LET p == payment[PyIndex(fromNode, len(nbrs))]
            IN  IF p = None
                THEN pcWatch' = "raised" /\ UNCHANGED running
                ELSE IF p[1].match = None
                THEN pcWatch' = "sleep" /\ UNCHANGED running
                ELSE /\ pcWatch' = "done"
                     /\ running' = IF stop THEN stop_all_nodes ELSE running
    /\ UNCHANGED <<nbrs, alice, bob, stop, payment, ledger, inbox, match_data,
                   matched, task, pcMain, pcGet, res_default, calls>>

\* await asyncio.sleep(checkTime) returns.
CheckMatchWake ==
    /\ pcWatch = "sleep"
    /\ pcWatch' = "poll"
    /\ UNCHANGED <<nbrs, alice, bob, stop, running, payment, ledger, inbox,
                   match_data, matched, task, pcMain, pcGet, res_default, calls>>

\* ---------------------------------------------------------------- build_route

\* build_route reading match_data.get(matchId, current).
RECURSIVE build_route_get_default(_, _, _, _, _)
build_route_get_default(network, matchId, current, res, depth) ==
    IF depth >= RecursionLimit
    THEN [status |-> "RecursionError", res |-> res]
    ELSE IF ~PyIndexOk(current, len(network))
    THEN [status |-> "IndexError", res |-> res]
    ELSE LET entry == network[PyIndex(current, len(network))][matchId]
             next == IF entry = None THEN current ELSE entry[1]
             res2 == Append(res, current)
         IN  IF current = next
             THEN [status |-> "returned", res |-> res2]
             ELSE build_route_get_default(network, matchId, next, res2, depth + 1)

\* build_route(network, matchId, current, res) at recursion depth `depth`:
\* what the call ends with, and the list res as the call leaves it.
\*   next = network[current].match_data[matchId]   (IndexError, KeyError)
\*   res.append(current)
\*   if current == next: return res
\*   else: return build_route(network, matchId, next, res)
RECURSIVE build_route(_, _, _, _, _)
build_route(network, matchId, current, res, depth) ==
    IF depth >= RecursionLimit
    THEN [status |-> "RecursionError", res |-> res]
    ELSE IF ~PyIndexOk(current, len(network))
    THEN [status |-> "IndexError", res |-> res]
    ELSE LET entry == network[PyIndex(current, len(network))][matchId]
         IN  IF entry = None
             THEN [status |-> "KeyError", res |-> res]
             ELSE LET next == entry[1]
                      res2 == Append(res, current)
                  IN  IF current = next
                      THEN [status |-> "returned", res |-> res2]
                      ELSE build_route(network, matchId, next, res2, depth + 1)

\* A call build_route(network, matchId, current) with res left at its
\* default: the default is one list object, which the call appends to and
\* returns.
CallDefault(matchId, current) ==
    LET out == build_route(match_data, matchId, current, res_default, 0)
    IN  /\ calls' = Append(calls, [matchId |-> matchId, current |-> current,
                                   status |-> out.status, res |-> out.res])
        /\ res_default' = out.res

\* ----------------------------------------------------------------------- main

\* start_all_nodes(network); the two tasks are created; main awaits them.
MainStart ==
    /\ pcMain = "init"
    /\ running' = start_all_nodes
    /\ pcGet' = "ready"
    /\ pcWatch' = "ready"
    /\ pcMain' = "gather"
    /\ UNCHANGED <<nbrs, alice, bob, stop, payment, ledger, inbox, match_data,
                   matched, task, res_default, calls>>

\* main going on as soon as check_match has ended, without get_route.
MainGatherReturnEarly ==
    /\ pcMain = "gather"
    /\ pcWatch = "done"
    /\ pcMain' = "build"
    /\ UNCHANGED <<nbrs, alice, bob, stop, running, payment, ledger, inbox,
                   match_data, matched, task, pcGet, pcWatch, res_default, calls>>

\* await asyncio.gather(*tasks) returns: get_route and check_match have ended.
MainGatherReturn ==
    /\ pcMain = "gather"
    /\ pcGet = "done"
    /\ pcWatch = "done"
    /\ pcMain' = "build"
    /\ UNCHANGED <<nbrs, alice, bob, stop, running, payment, ledger, inbox,
                   match_data, matched, task, pcGet, pcWatch, res_default, calls>>

Cancel(pc) == IF pc \in {"ready", "poll", "sleep", "gather", "run"} THEN "cancelled" ELSE pc

\* await asyncio.gather(*tasks) raises the first exception of its tasks: main
\* ends with it. The tasks still pending go on taking their turns until
\* asyncio.run cancels them.
MainGatherRaise ==
    /\ pcMain = "gather"
    /\ pcGet = "raised" \/ pcWatch = "raised"
    /\ pcWatch # "ready"
    /\ pcMain' = "raised"
    /\ UNCHANGED <<nbrs, alice, bob, stop, running, payment, ledger, inbox,
                   match_data, matched, task, pcGet, pcWatch, res_default, calls>>

\* asyncio.run(main()): once main has ended, every task still pending is
\* cancelled.
AsyncioRunCancel ==
    /\ pcMain = "raised"
    /\ \/ Cancel(pcGet) # pcGet
       \/ Cancel(pcWatch) # pcWatch
       \/ \E n \in Nodes : Cancel(task[n]) # task[n]
    /\ pcGet' = Cancel(pcGet)
    /\ pcWatch' = Cancel(pcWatch)
    /\ task' = [n \in Nodes |-> Cancel(task[n])]
    /\ UNCHANGED <<nbrs, alice, bob, stop, running, payment, ledger, inbox,
                   match_data, matched, pcMain, res_default, calls>>

\* matchId = network[alice].payment.match.match_id
\* doneBy = network[alice].payment.match.from_id
\* route = build_route(network, matchId, doneBy)
MainBuild ==
    /\ pcMain = "build"
    /\ LET m == payment[alice][1].match
       IN  IF m = None
           THEN pcMain' = "raised" /\ UNCHANGED <<calls, res_default>>
           ELSE /\ CallDefault(m[1].match_id, m[1].from_id)
                /\ pcMain' = IF calls'[Len(calls')].status = "returned"
                             THEN "done" ELSE "raised"
    /\ UNCHANGED <<nbrs, alice, bob, stop, running, payment, ledger, inbox,
                   match_data, matched, task, pcGet, pcWatch>>

\* ------------------------------------------------------------- specifications

Driver ==
    \/ MainStart
    \/ GetRouteGather
    \/ \E n \in Nodes : NodeHandle(n)
    \/ \E n \in Nodes : NodeExit(n)
    \/ CheckMatch(alice)
    \/ CheckMatchWake
    \/ MainGatherReturn
    \/ MainGatherRaise
    \/ MainBuild

\* main as written: the network of generate_random_ln_network, alice = 2,
\* bob = 8, check_match's stop left at its default True, the counter drawn by
\* get_route. (Without a faulty node nothing is pending when main ends, and
\* asyncio.run has nothing to cancel.)
Next == GetRoute \/ Driver

Init == \E net \in MainNetworks : InitState(net, MainAlice, MainBob, TRUE)

Spec == Init /\ [][Next]_vars

\* get_route and check_match called with any arguments, the counter drawn by
\* get_route.
NextCall == GetRoute \/ Driver

InitCall == InitOn(CallTopologies)

SpecCall == InitCall /\ [][NextCall]_vars

\* The search on networks with a cycle, on which a signal reaches a node
\* twice: from node 0 to the node farthest from it, and with main's pair.
NextCycle == GetRoute \/ Driver

InitCycle ==
    \/ \E s \in BOOLEAN : InitState(Kite, 0, 3, s)
    \/ InitState(Cycle4, 0, 2, TRUE)
    \/ InitState(Kite, MainAlice, MainBob, TRUE)

SpecCycle == InitCycle /\ [][NextCycle]_vars

\* The search on the long line from its first two nodes, with stop=False:
\* the nodes are never stopped and the signal of the second node runs down
\* the line until its counter is spent; and on the line 0-1-2 from its two
\* ends and with main's pair.
NextLong == GetRoute \/ Driver

InitLong ==
    \/ InitState(LongLine, 0, 1, FALSE)
    \/ \E pair \in {<<0, 2>>, <<MainAlice, MainBob>>} :
           InitState(Line(3), pair[1], pair[2], TRUE)

SpecLong == InitLong /\ [][NextLong]_vars

\* The search stopped, or never stopped, by the watcher: on the line 0-1-2-3
\* from its first two nodes, where signals are still on their way when the
\* match is seen, with either value of stop and with main's pair; and on the
\* network in two components, with an endpoint in each.
NextStop == GetRoute \/ Driver

InitStop ==
    \/ \E s \in BOOLEAN : InitState(Line(4), 0, 1, s)
    \/ InitState(Line(4), MainAlice, MainBob, TRUE)
    \/ InitState(Split, 0, 2, TRUE)

SpecStop == InitStop /\ [][NextStop]_vars

\* The search when a node's search process may raise an error.
NextFault ==
    \/ NextCall
    \/ \E n \in Nodes : NodeFault(n)
    \/ AsyncioRunCancel

InitFault == \E s \in BOOLEAN : InitState(Line(3), 0, 2, s)

SpecFault == InitFault /\ [][NextFault]_vars

\* The route builder on its own: build_route is a function of the match_data
\* of the nodes it is handed, which here hold any pointers for seed 0 and none
\* for the other seeds; a client calls it with any match id and start node.
Pointers(n) ==
    {[s \in Seeds |-> IF s = 0 THEN e ELSE None] :
        e \in {None} \cup {Some(k) : k \in 0..(n - 1)}}

InitBuild ==
    /\ NodeInit(generate_ln_network_from_networkx(BuildNodes, {}))
    /\ match_data \in [0..(BuildNodes - 1) -> Pointers(BuildNodes)]
    /\ alice = 0
    /\ bob = 1
    /\ stop = TRUE
    /\ pcMain = "client"
    /\ pcGet = "none"
    /\ pcWatch = "none"
    /\ res_default = <<>>
    /\ calls = <<>>

ClientBuildRoute ==
    /\ pcMain = "client"
    /\ Len(calls) < MaxCalls
    /\ \E matchId \in Seeds, current \in -1..len(nbrs) :
           CallDefault(matchId, current)
    /\ UNCHANGED <<nbrs, alice, bob, stop, running, payment, ledger, inbox,
                   match_data, matched, task, pcMain, pcGet, pcWatch>>

NextBuild == ClientBuildRoute

SpecBuild == InitBuild /\ [][NextBuild]_vars

\* Every task that can run is eventually run by the event loop, and a sleep
\* eventually returns.
Fairness ==
    /\ WF_vars(MainStart)
    /\ WF_vars(GetRoute)
    /\ WF_vars(GetRouteGather)
    /\ \A n \in 0..(MaxNodes - 1) : WF_vars(n \in Nodes /\ NodeHandle(n))
    /\ \A n \in 0..(MaxNodes - 1) : WF_vars(n \in Nodes /\ NodeExit(n))
    /\ WF_vars(CheckMatch(alice))
    /\ WF_vars(CheckMatchWake)
    /\ WF_vars(MainGatherReturn)
    /\ WF_vars(MainGatherRaise)
    /\ WF_vars(MainBuild)

FairSpecStop == SpecStop /\ Fairness

\* ------------------------------------------------------- notions of the claims

\* get_route has installed the two Payments and launched the node tasks.
SearchStarted == pcGet \in {"gather", "done", "cancelled"} /\ payment[alice] # None

\* The hop budget of the search: the initial counter of its Payments.
HopBudget == payment[alice][1].counter

\* Some node has emitted a Match.
MatchProduced == \E n \in Nodes : matched[n]

\* main has called build_route; the call and the route it returned.
MainCalled == pcMain \in {"done", "raised"} /\ Len(calls) >= 1
MainRoute == calls[1].res

\* The Match recorded in the requesting endpoint's Payment.
AliceMatch == payment[alice][1].match[1]

Range(seq) == {seq[i] : i \in 1..Len(seq)}

\* No node identity appears twice.
Simple(seq) == \A i, j \in 1..Len(seq) : i # j => seq[i] # seq[j]

\* Consecutive nodes are neighbours in the network.
PathIn(net, seq) == \A i \in 1..(Len(seq) - 1) : seq[i + 1] \in net[seq[i]]

\* ---------------------------------------------------------------------- claims

\* C3: when no Match ever forms, the watcher check_match eventually ends.
C3_WatcherEnds ==
    <>(MatchProduced \/ pcWatch \in {"done", "raised", "cancelled"})

\* C4: the route main builds after a Match is a simple path of the network
\* that connects the two endpoints and contains the Match's located-at node.
C4_RouteConnectsEndpoints ==
    MainCalled =>
        /\ calls[1].status = "returned"
        /\ Simple(MainRoute)
        /\ PathIn(nbrs, MainRoute)
        /\ {alice, bob, AliceMatch.from_id} \subseteq Range(MainRoute)

\* C5: get_route called with alice == bob or an index out of range raises
\* and launches nothing: no Payment on any node, no node task, no signal, and
\* the ledgers and match data as they were.
C5_InvalidEndpointsRejected ==
    (/\ pcGet \notin {"none", "ready"}
     /\ \/ alice = bob
        \/ alice \notin 0..(len(nbrs) - 1)
        \/ bob \notin 0..(len(nbrs) - 1))
    => /\ pcGet = "raised"
       /\ \A n \in Nodes :
            /\ payment[n] = None
            /\ task[n] = "none"
            /\ inbox[n] = <<>>
            /\ \A r \in Roles : ledger[n][r] = None
            /\ \A s \in Seeds : match_data[n][s] = None
            /\ ~matched[n]

\* C5 witness: get_route has raised for a pair of equal, in-range endpoints.
C5_SameNodeRaised == pcGet = "raised" /\ alice = bob /\ alice \in Nodes

\* The list res before call i of build_route: the default list as the call
\* before left it.
ResBefore(i) == IF i = 1 THEN <<>> ELSE calls[i - 1].res

\* No node holds an entry for match id s: no Match exists for it.
NoMatchData(s) == \A n \in Nodes : match_data[n][s] = None

\* Following the pointers for match id s from node c for k steps meets
\* neither a missing entry nor a node that points to itself.
RECURSIVE Loops(_, _, _)
Loops(s, c, k) ==
    IF k = 0 THEN TRUE
    ELSE /\ PyIndexOk(c, len(nbrs))
         /\ match_data[PyIndex(c, len(nbrs))][s] # None
         /\ match_data[PyIndex(c, len(nbrs))][s][1] # c
         /\ Loops(s, match_data[PyIndex(c, len(nbrs))][s][1], k - 1)

\* The pointers followed from c form a cycle with no self-pointing node.
Cyclic(s, c) == Loops(s, c, len(nbrs) + 1)

\* C6: build_route called for a match id for which no Match exists, from a
\* node of the network, fails on its first lookup (the KeyError of the
\* missing match_data entry is the NotMatched failure) and returns no route:
\* nothing is appended to the list.
C6_NoMatchNoRoute ==
    \A i \in 1..Len(calls) :
        (NoMatchData(calls[i].matchId) /\ PyIndexOk(calls[i].current, len(nbrs)))
        => /\ calls[i].status = "KeyError"
           /\ calls[i].res = ResBefore(i)

\* C6 witness: a client has called build_route from node 0 for a match id no
\* node holds, and the call has failed.
C6_CalledWithoutMatch ==
    /\ Len(calls) >= 1
    /\ NoMatchData(calls[1].matchId)
    /\ calls[1].current = 0
    /\ calls[1].status = "KeyError"

\* C7: build_route called where the pointers form a cycle with no
\* self-pointing node detects the cycle: it fails with an Integrity error
\* having appended each node of the network at most once.
C7_CycleDetected ==
    \A i \in 1..Len(calls) :
        Cyclic(calls[i].matchId, calls[i].current)
        => /\ calls[i].status = "IntegrityError"
           /\ Len(calls[i].res) - Len(ResBefore(i)) <= len(nbrs)

\* C8: an error raised inside one node's search task stays local: get_route
\* and main do not fail and no other task is cancelled.
C8_NodeErrorStaysLocal ==
    (\E n \in Nodes : task[n] = "raised")
    => /\ pcGet # "raised"
       /\ pcMain # "raised"
       /\ pcWatch # "cancelled"
       /\ \A k \in Nodes : task[k] # "cancelled"

\* The 3-node line 0-1-2 with the endpoints at its two ends.
OnLine3 == nbrs = Line(3) /\ {alice, bob} = {0, 2} /\ SearchStarted

\* C9: on the line 0-1-2 with endpoints 0 and 2 (the counter get_route draws
\* is a hop budget of 2 or more), the Match is located at node 1 and the
\* route main builds with build_route is [0,1,2] or [2,1,0]. Stated for the
\* runs in which the Match is located at node 1, as the claim says it is:
\* there the route must be one of the two.
C9_LineMatchAtMiddle ==
    (OnLine3 /\ MainCalled /\ AliceMatch.from_id = 1)
    => /\ calls[1].status = "returned"
       /\ MainRoute \in {<<0, 1, 2>>, <<2, 1, 0>>}

\* In this step node n forwards a pheromone signal of role r: a neighbour's
\* queue gains a signal sent by n.
Forwards(n, r) ==
    \E k \in Nodes \ {n} :
        /\ Len(inbox'[k]) = Len(inbox[k]) + 1
        /\ inbox'[k][Len(inbox'[k])].kind = "phero"
        /\ inbox'[k][Len(inbox'[k])].sender = n
        /\ inbox'[k][Len(inbox'[k])].role = r

\* C11: a node's ledger slot for a role, once visited, is never written
\* again, and the node forwards the signal of a role only in the step in
\* which that slot goes from unvisited to visited: so it forwards at most
\* once per (seed, role), whatever duplicates arrive.
C11_ForwardOncePerRole ==
    [][\A n \in Nodes : \A r \in Roles :
          /\ ledger[n][r] # None => ledger'[n][r] = ledger[n][r]
          /\ Forwards(n, r) => ledger[n][r] = None /\ ledger'[n][r] # None]_vars

\* C11 witness: a node that has marked a role's slot and forwarded the signal
\* has a duplicate of that role's signal, from another sender, at the head of
\* its queue.
C11_DuplicateArrived ==
    \E n \in Nodes :
        /\ inbox[n] # <<>>
        /\ Head(inbox[n]).kind = "phero"
        /\ ledger[n][Head(inbox[n]).role] # None
        /\ ledger[n][Head(inbox[n]).role][1] # Head(inbox[n]).sender
        /\ \E k \in nbrs[n] : ledger[k][Head(inbox[n]).role] = Some(n)

\* Every node of the network has been told to stop.
AllStopped == \A n \in Nodes : ~running[n]

\* C12: a node that has been told to stop issues no new forward, and once
\* stop_all_nodes has stopped the nodes every node task ends and the gather
\* of get_route returns.
C12_StopEndsSearch ==
    /\ [][\A n \in Nodes : \A r \in Roles : ~running[n] => ~Forwards(n, r)]_vars
    /\ (pcGet = "gather" /\ AllStopped) ~>
            (pcGet = "done" /\ \A n \in Nodes : task[n] = "done")

\* C12 witness: the nodes were stopped while signals were still queued, and
\* get_route has returned.
C12_StoppedWithQueuedSignals ==
    /\ pcGet = "done"
    /\ pcWatch = "done"
    /\ AllStopped
    /\ \E n \in Nodes : inbox[n] # <<>> /\ Head(inbox[n]).kind = "phero"

\* C13: a route returned by build_route is never mutated afterwards. With
\* res left at its default the list returned is the default list object, so
\* the route call i returned is now what that object holds: it still equals
\* what the call returned.
C13_ReturnedRouteKept ==
    \A i \in 1..Len(calls) :
        calls[i].status = "returned" => res_default = calls[i].res

\* The signal a step appends to the queue of node k.
Arrived(k) == inbox'[k][Len(inbox'[k])]

\* C14: a signal relayed by node n carries the counter of the signal n
\* handled minus exactly one (so the counter never increases along a chain)
\* and the same seed, role and fee budget; a relayed signal always carries a
\* positive counter, and a signal whose counter reaches zero at n is not
\* forwarded. (A relay by n of role r is a queue of another node k gaining a
\* signal sent by n: Forwards(n, r), here found from the queue that grew.)
C14_CounterDecrementedPerHop ==
    [][/\ \A j \in Nodes :
            (/\ Len(inbox'[j]) = Len(inbox[j]) + 1
             /\ Arrived(j).kind = "phero"
             /\ Arrived(j).sender \in Nodes \ {j}
             /\ Arrived(j).role \in Roles)
            => LET n == Arrived(j).sender
               IN  /\ inbox[n] # <<>>
                   /\ Head(inbox[n]).kind = "phero"
                   /\ \A k \in Nodes \ {n} :
                         Len(inbox'[k]) = Len(inbox[k]) + 1 =>
                             /\ Arrived(k).counter = Head(inbox[n]).counter - 1
                             /\ Arrived(k).counter > 0
                             /\ Arrived(k).seed = Head(inbox[n]).seed
                             /\ Arrived(k).role = Head(inbox[n]).role
                             /\ Arrived(k).fees = Head(inbox[n]).fees
       /\ \A n \in Nodes : \A r \in Roles :
            (/\ task[n] = "run" /\ inbox[n] # <<>>
             /\ inbox'[n] = Tail(inbox[n])
             /\ Head(inbox[n]).kind = "phero"
             /\ Head(inbox[n]).counter - 1 <= 0) => ~Forwards(n, r)]_vars

\* C14 witness: a signal whose counter is spent on arrival is queued at a
\* node with unvisited neighbours, after being relayed down the network: its
\* sender had it from another node, and it left its origin with the hop
\* budget get_route drew.
C14_RelayedAndSpent ==
    /\ SearchStarted
    /\ \E n \in Nodes :
          /\ inbox[n] # <<>>
          /\ Head(inbox[n]).kind = "phero"
          /\ Head(inbox[n]).counter = 1
          /\ HopBudget >= CounterLo
          /\ ledger[n][Head(inbox[n]).role] = None
          /\ \E k \in nbrs[n] : ledger[k][Head(inbox[n]).role] = None
          /\ LET s == Head(inbox[n]).sender
             IN  /\ ledger[s][Head(inbox[n]).role] # None
                 /\ ledger[s][Head(inbox[n]).role][1] \notin {s, n}

\* C15: once main has started the nodes, no node is stopped before
\* check_match has observed the match; check_match ends only on a match
\* recorded in the requesting endpoint's Payment, and then with stop=True
\* every node is stopped and with stop=False every node is still running.
C15_StopFlagDecidesShutdown ==
    pcMain \in {"gather", "build", "done", "raised"} =>
        /\ pcWatch # "done" => \A n \in Nodes : running[n]
        /\ pcWatch = "done" =>
              /\ SearchStarted
              /\ payment[alice][1].match # None
              /\ stop => AllStopped
              /\ ~stop => \A n \in Nodes : running[n]

\* C15 witness: check_match has returned on the match with stop=False; the
\* nodes still run and get_route still awaits them.
C15_ReturnedWithoutStopping ==
    /\ pcWatch = "done"
    /\ ~stop
    /\ pcGet = "gather"
    /\ \A n \in Nodes : running[n] /\ task[n] = "run"

\* C16: the Payment get_route installs on Alice's node is Alice-side only,
\* the one on Bob's node is Bob-side only, no other node has a Payment, and
\* the two carry the same seed, amount, endpoints, fee budget and hop
\* counter, the counter drawn from 64..128.
C16_PaymentsInstalled ==
    SearchStarted =>
        /\ payment[bob] # None
        /\ \A n \in Nodes \ {alice, bob} : payment[n] = None
        /\ LET pa == payment[alice][1]
               pb == payment[bob][1]
           IN  /\ pa.is_alice /\ ~pa.is_bob
               /\ pb.is_bob /\ ~pb.is_alice
               /\ pa.seed = pb.seed
               /\ pa.amount = pb.amount
               /\ pa.fees = pb.fees
               /\ pa.counter = pb.counter
               /\ pa.counter \in CounterLo..CounterHi
               /\ pa.node_alice = alice /\ pa.node_bob = bob
               /\ pb.node_alice = alice /\ pb.node_bob = bob

\* C16 witness: get_route has installed the two Payments with the largest
\* counter of the range.
C16_InstalledWithTopCounter ==
    /\ SearchStarted
    /\ payment[bob] # None
    /\ payment[bob][1].counter = CounterHi
    /\ payment[alice][1].seed = payment[bob][1].seed

\* C17: in every run of the driver build_route is called (and main is past
\* its gather) only after check_match has observed a Match recorded in the
\* requesting endpoint's Payment and get_route has returned, every node task
\* having ended.
C17_BuildAfterMatchAndSearch ==
    (Len(calls) >= 1 \/ pcMain \in {"build", "done"}) =>
        /\ pcWatch = "done"
        /\ pcGet = "done"
        /\ \A n \in Nodes : task[n] = "done"
        /\ SearchStarted
        /\ payment[alice][1].match # None
        /\ MatchProduced

\* C17 witness: main has called build_route and has its route.
C17_RouteBuiltByMain ==
    /\ pcMain = "done"
    /\ Len(calls) = 1
    /\ calls[1].status = "returned"
    /\ calls[1].matchId = AliceMatch.match_id
    /\ calls[1].current = AliceMatch.from_id

\* C20: build_route is repeatable: a later call with the same arguments, the
\* network unchanged and res left at its default, returns a route equal to
\* the one the earlier call returned.
C20_SameCallSameRoute ==
    \A i \in 1..Len(calls) : \A j \in 1..Len(calls) :
        (/\ i < j
         /\ calls[i].matchId = calls[j].matchId
         /\ calls[i].current = calls[j].current
         /\ calls[i].status = "returned")
        => /\ calls[j].status = "returned"
           /\ calls[j].res = calls[i].res

====
